---- MODULE Spec2Model ----
(***************************************************************************)
(* Model of the chat panel (SimplePanel.tsx): the Row Normalizer           *)
(* (convertGrafanaDataToJson), the Dashboard Query Extractor               *)
(* (convertDashboardData), the Query Executor (queryDataSource), the       *)
(* Context Assembler and Conversation Controller (submitQuestion) and the  *)
(* completion call (fetchGroqData).                                        *)
(*                                                                         *)
(* JavaScript values are modelled as follows.  An optional string is a     *)
(* string, the absent value being Undef.  A value that should be an array  *)
(* is a record [tag, items]: tag "array" for an array, anything else for   *)
(* a value that is not an array (items is then <<>>).                      *)
(***************************************************************************)
EXTENDS Integers, Sequences, FiniteSets, TLC

\* ---------------------------------------------------------------- bounds
MaxRows    == 2   \* longest values array of a field
MaxFields  == 2   \* most fields in frame 0
MaxTargets == 2   \* most targets in a panel
MaxPanels  == 2   \* most panels in a panel list
MaxSubmits == 2   \* clicks on Send during the widget's lifetime
MaxEvents  == 3   \* events of one query stream before it ends

\* ------------------------------------------------------- JavaScript values
Undef == "<undefined>"
Arr(items) == [tag |-> "array", items |-> items]
NotArr == [tag |-> "undefined", items |-> <<>>]
IsArray(v) == v.tag = "array"
\* x ?? d
Nullish(x, d) == IF x = Undef THEN d ELSE x
\* !x for an optional string
Falsy(x) == x = Undef \/ x = ""

SeqUpTo(S, n) == UNION {[1..k -> S] : k \in 0..n}

\* ------------------------------------------------------------ Row Normalizer
\* const rowCount = fields[0]?.values?.length || 0
RowCount(fields) ==
  IF Len(fields) = 0 THEN 0
  ELSE IF ~IsArray(fields[1].values) THEN 0
  ELSE Len(fields[1].values.items)

\* field.values[i] (0-based i = r-1); reading past the end yields undefined
Cell(field, r) ==
  IF r <= Len(field.values.items) THEN field.values.items[r] ELSE Undef

\* fields.forEach(field => row[field.name] = field.values[i]): a later field
\* of the same name overwrites an earlier one
RowOf(fields, r) ==
  [n \in {fields[k].name : k \in 1..Len(fields)} |->
     LET last == CHOOSE k \in 1..Len(fields) :
                   /\ fields[k].name = n
                   /\ \A j \in 1..Len(fields) : fields[j].name = n => j <= k
     IN Cell(fields[last], r)]

\* field.values[i] throws a TypeError when field.values is undefined
RowThrows(fields) == \E k \in 1..Len(fields) : ~IsArray(fields[k].values)

Returned(rows) == [tag |-> "returned", rows |-> rows]
Thrown == [tag |-> "thrown", rows |-> <<>>]

\* variant: reads the fields of the last frame instead of frame 0
convertGrafanaDataToJsonLastFrame(data) ==
  IF ~IsArray(data) \/ Len(data.items) = 0 THEN Returned(<<>>)
  ELSE LET frameN == data.items[Len(data.items)] IN
    IF frameN.tag # "object" \/ ~IsArray(frameN.fields) THEN Returned(<<>>)
    ELSE LET fields == frameN.fields.items
             rowCount == RowCount(fields) IN
      IF rowCount > 0 /\ RowThrows(fields) THEN Thrown
      ELSE Returned([r \in 1..rowCount |-> RowOf(fields, r)])

convertGrafanaDataToJson(data) ==
  IF ~IsArray(data) \/ Len(data.items) = 0 THEN Returned(<<>>)
  ELSE LET frame0 == data.items[1] IN
    IF frame0.tag # "object" \/ ~IsArray(frame0.fields) THEN Returned(<<>>)
    ELSE LET fields == frame0.fields.items
             rowCount == RowCount(fields) IN
      IF rowCount > 0 /\ RowThrows(fields) THEN Thrown
      ELSE Returned([r \in 1..rowCount |-> RowOf(fields, r)])

\* inputs of the normalizer
FieldNames == {"a", "b"}
\* a values array of n cells, all different, starting at cell `first`
Column(n, first) == Arr([i \in 1..n |-> ToString(first + i - 1)])
ValuesOpts == {NotArr} \cup {Column(n, first) : n \in 0..MaxRows, first \in {1, 5}}
Fields == [name : FieldNames, values : ValuesOpts]
Frame(fieldsArr) == [tag |-> "object", fields |-> fieldsArr]
NullFrame == [tag |-> "null", fields |-> NotArr]
Frames0 == {NullFrame, Frame(NotArr)} \cup
           {Frame(Arr(fl)) : fl \in SeqUpTo(Fields, MaxFields)}
LaterFrames == {Frame(Arr(<<[name |-> "z", values |-> Arr(<<"9", "9", "9">>)]>>)),
                NullFrame}
NormInputs == {NotArr, [tag |-> "string", items |-> <<>>], Arr(<<>>)} \cup
              {Arr(<<f>>) : f \in Frames0} \cup
              {Arr(<<f, g>>) : f \in Frames0, g \in LaterFrames}

\* ------------------------------------------------- Dashboard Query Extractor
\* variant: defaults a missing datasource to the empty string like the others
DescriptorEmptyDefault(target, panel) ==
  [datasource  |-> Nullish(target.datasource, ""),
   rawSql      |-> Nullish(target.rawSql, ""),
   refId       |-> Nullish(target.refId, ""),
   format      |-> Nullish(target.format, ""),
   title       |-> Nullish(panel.title, ""),
   description |-> Nullish(panel.description, "")]

\* response.push({datasource: target.datasource ?? "Unknown", ...})
Descriptor(target, panel) ==
  [datasource  |-> Nullish(target.datasource, "Unknown"),
   rawSql      |-> Nullish(target.rawSql, ""),
   refId       |-> Nullish(target.refId, ""),
   format      |-> Nullish(target.format, ""),
   title       |-> Nullish(panel.title, ""),
   description |-> Nullish(panel.description, "")]

\* variant: drops the targets without a raw query while extracting
PanelDescriptorsFiltered(panel) ==
  IF ~IsArray(panel.targets) THEN <<>>
  ELSE LET kept == SelectSeq(panel.targets.items,
                             LAMBDA t : ~Falsy(t.rawSql)) IN
       [k \in 1..Len(kept) |-> Descriptor(kept[k], panel)]

\* the body of `for (const panel of panels)`
PanelDescriptors(panel) ==
  IF ~IsArray(panel.targets) THEN <<>>
  ELSE [k \in 1..Len(panel.targets.items) |->
          Descriptor(panel.targets.items[k], panel)]

RECURSIVE ExtractFrom(_)
ExtractFrom(panels) ==
  IF panels = <<>> THEN <<>>
  ELSE PanelDescriptors(Head(panels)) \o ExtractFrom(Tail(panels))

\* JSON.parse(panels): a text is modelled by whether it parses and by the
\* value it parses to
JsonText(value) == [tag |-> "string", parses |-> TRUE, items |-> <<value>>]
BadJsonText == [tag |-> "string", parses |-> FALSE, items |-> <<>>]
PanelArr(items) == [tag |-> "array", parses |-> TRUE, items |-> items]
NotPanelArr == [tag |-> "object", parses |-> TRUE, items |-> <<>>]

convertDashboardData(panels) ==
  IF panels.tag = "string" /\ ~panels.parses THEN <<>>
  ELSE LET parsed == IF panels.tag = "string" THEN panels.items[1] ELSE panels IN
    IF ~IsArray(parsed) THEN <<>>
    ELSE ExtractFrom(parsed.items)

\* targets and panels of the extractor's inputs
Targets ==
  { [datasource |-> "pg",  rawSql |-> "SELECT 1", refId |-> "B",   format |-> "time_series"],
    [datasource |-> Undef, rawSql |-> Undef,      refId |-> Undef, format |-> Undef] }
PanelMeta == { <<Undef, Undef>>, <<"A", "dA">> }
TargetLists == {NotArr} \cup {Arr(s) : s \in SeqUpTo(Targets, MaxTargets)}
Panels == { [targets |-> tl, title |-> m[1], description |-> m[2]] :
              tl \in TargetLists, m \in PanelMeta }
PanelLists == SeqUpTo(Panels, MaxPanels)

\* ------------------------------------------------------------ environment
\* options.initalChatMessage
Preamble == "PRE"
\* texts the user can type into the input field
InputTexts == {"X", "Y"}
\* replies of the completion service
Replies == {"R1"}

PanelA == [targets |-> Arr(<<[datasource |-> "pg", rawSql |-> "SELECT 1",
                              refId |-> Undef, format |-> Undef]>>),
           title |-> "A", description |-> "dA"]
PanelB == [targets |-> Arr(<<>>), title |-> "B", description |-> Undef]
PanelC == [targets |-> Arr(<<[datasource |-> "", rawSql |-> "SELECT 2",
                              refId |-> "B", format |-> "table"],
                             [datasource |-> "pg", rawSql |-> "",
                              refId |-> "C", format |-> Undef]>>),
           title |-> "C", description |-> "dC"]
PanelD == [targets |-> Arr(<<[datasource |-> Undef, rawSql |-> "SELECT 3",
                              refId |-> "D", format |-> "time_series"]>>),
           title |-> Undef, description |-> Undef]
PanelE == [targets |-> NotArr, title |-> "E", description |-> "dE"]
\* panel lists the dashboard metadata service can return
Dashboards == { <<PanelA, PanelB>>, <<PanelE, PanelC, PanelA, PanelD>> }

\* inputs of the extractor: structured lists, serialized text, other values
ExtractInputs == {BadJsonText, NotPanelArr, JsonText(NotPanelArr)} \cup
                 {PanelArr(pl) : pl \in PanelLists \cup Dashboards} \cup
                 {JsonText(PanelArr(pl)) : pl \in SeqUpTo(Panels, 1)}

\* response.data of the first batch of a query stream
GoodBatch == Arr(<<Frame(Arr(<<[name |-> "a", values |-> Arr(<<"1", "2">>)],
                               [name |-> "b", values |-> Arr(<<"5">>)]>>))>>)
BadBatch == Arr(<<Frame(Arr(<<[name |-> "a", values |-> Arr(<<"1">>)],
                              [name |-> "b", values |-> NotArr]>>))>>)
Batches == {GoodBatch, BadBatch}

\* ------------------------------------------------------------------ state
VARIABLES
  chat,        \* useState<Message[]>([]) : the transcript
  inputValue,  \* useState("") : the input buffer
  handlers,    \* the invocations of submitQuestion, by click number
  requests,    \* the calls of fetchGroqData, in dispatch order
  normIn, normOut,   \* argument and outcome of convertGrafanaDataToJson
  extIn, extOut,     \* argument and result of convertDashboardData
  exec               \* one call of queryDataSource and its query stream

vars == <<chat, inputValue, handlers, requests, normIn, normOut, extIn, extOut,
          exec>>
ctlVars == <<chat, inputValue, handlers, requests>>
normVars == <<normIn, normOut>>
extVars == <<extIn, extOut>>
execVars == <<exec>>

\* ----------------------------------------------------------------- messages
Message(role, text, data) ==
  [role |-> role, content |-> [text |-> text, data |-> data]]
UserMessage(text) == Message("user", text, <<>>)
AssistantMessage(text) == Message("assistant", text, <<>>)
\* what newValue.push(undefined) adds to the transcript
UndefMessage == Message(Undef, Undef, <<>>)

\* outcome of `await queryDataSource(target)` as seen by the map callback
NoResult == [tag |-> "pending", rows |-> <<>>]
UndefResult == [tag |-> "undefined", rows |-> <<>>]
NullResult == [tag |-> "null", rows |-> <<>>]
RowsResult(rows) == [tag |-> "rows", rows |-> rows]

\* JSON.stringify of one row: a key whose value is undefined is dropped
StringifyRow(row) == [n \in {k \in DOMAIN row : row[k] # Undef} |-> row[n]]

\* JSON.stringify of one {title, description, result}: an undefined result
\* drops the key, null stays null
StringifyEntry(entry) ==
  [title |-> entry.title, description |-> entry.description,
   result |-> IF entry.result.tag = "undefined"
              THEN [tag |-> "omitted", rows |-> <<>>]
              ELSE [tag |-> entry.result.tag,
                    rows |-> [i \in 1..Len(entry.result.rows) |->
                                StringifyRow(entry.result.rows[i])]]]
Stringify(panelData) ==
  [j \in 1..Len(panelData) |-> StringifyEntry(panelData[j])]

\* `${options.initalChatMessage} This is the data on the dashboard: ${...}.`
SystemMessage(panelData) == Message("system", Preamble, Stringify(panelData))

\* lines 213-222
initialMessages(panelData, input) ==
  <<SystemMessage(panelData), UserMessage(input)>>
\* variant: rebuilds the system message on a later submit
furtherMessagesRebuilt(captured, input) ==
  <<SystemMessage(<<>>)>> \o Tail(captured) \o <<UserMessage(input)>>

\* lines 226-232
furtherMessages(captured, input) == captured \o <<UserMessage(input)>>

\* ------------------------------------------------------------ fetchDashboard
MetaResponses ==
  {[kind |-> "reject", panels |-> NotPanelArr],
   [kind |-> "ok", panels |-> NotPanelArr]} \cup
  {[kind |-> "ok", panels |-> PanelArr(d)] : d \in Dashboards}

\* variant: calls the metadata service without checking the dashboard UID
fetchDashboardUnchecked(uid, resp) ==
  IF resp.kind = "reject" THEN <<>>
  ELSE convertDashboardData(resp.panels)

\* the value fetchDashboard resolves with: [] without a dashboard UID, []
\* when the metadata call rejects (caught), else the extracted descriptors
fetchDashboard(uid, resp) ==
  IF ~uid THEN <<>>
  ELSE IF resp.kind = "reject" THEN <<>>
  ELSE convertDashboardData(resp.panels)

\* ----------------------------------------------------------- queryDataSource
NoRequest == [refId |-> Undef, rawSql |-> Undef, format |-> Undef]
\* the single target of the request passed to datasource.query
QueryRequest(target) ==
  [refId  |-> Nullish(target.refId, "A"),
   rawSql |-> Nullish(target.rawSql, ""),
   format |-> Nullish(target.format, "table")]

Query(st, result, request) == [st |-> st, result |-> result, request |-> request]

\* queryDataSource up to its first suspension: an empty datasource reference
\* returns undefined at once, otherwise the registry lookup is awaited
StartQuery(target) ==
  IF Falsy(target.datasource) THEN Query("settled", UndefResult, NoRequest)
  ELSE Query("registry", NoResult, NoRequest)

\* getDataSourceSrv().get / datasource.query failing inside the try block
QueryCaught == Query("settled", NullResult, NoRequest)

\* next: resolve(convertGrafanaDataToJson(response.data)); when the
\* normalizer throws inside the callback the promise is never settled
OnNext(query, batch) ==
  LET out == convertGrafanaDataToJson(batch) IN
    IF out.tag = "thrown" THEN [query EXCEPT !.st = "hung"]
    ELSE [query EXCEPT !.st = "settled", !.result = RowsResult(out.rows)]

\* error: reject(err); the promise was returned without await, so the
\* try/catch of queryDataSource does not see the rejection
OnError(query) == [query EXCEPT !.st = "rejected"]

\* ------------------------------------------------------------ submitQuestion
\* meta and dashboardData record how fetchDashboard ended and what it returned
IdleHandler ==
  [pc |-> "idle", chat |-> <<>>, input |-> "", uid |-> FALSE, metaCalls |-> 0,
   meta |-> "pending", dashboardData |-> <<>>, descs |-> <<>>, q |-> <<>>]

\* variant: no filter, every extracted descriptor is queried
FilterTargetsAll(dashboardData) == dashboardData

\* dashboardData.filter((target) => target.rawSql)
HasRawSql(target) == ~Falsy(target.rawSql)
FilterTargets(dashboardData) == SelectSeq(dashboardData, HasRawSql)

AllSettled(q) == \A j \in 1..Len(q) : q[j].st = "settled"

\* variant: pairs the descriptors with the results in the opposite order
newPanelDataReversed(descs, q) ==
  [j \in 1..Len(descs) |->
     [title |-> descs[j].title, description |-> descs[j].description,
      result |-> q[Len(q) + 1 - j].result]]

\* the value Promise.all resolves with
newPanelData(descs, q) ==
  [j \in 1..Len(descs) |->
     [title |-> descs[j].title, description |-> descs[j].description,
      result |-> q[j].result]]

NewRequest(h, messages) ==
  [h |-> h, messages |-> messages, status |-> "pending", added |-> <<>>]

\* lines 213-224 and 237, run once Promise.all has resolved
FinishFresh(h, hrec) ==
  LET messages == initialMessages(newPanelData(hrec.descs, hrec.q), hrec.input) IN
    /\ chat' = messages
    /\ requests' = Append(requests, NewRequest(h, messages))
    /\ inputValue' = ""
    /\ handlers' = [handlers EXCEPT ![h] = [hrec EXCEPT !.pc = "done"]]

\* lines 226-234 and 237
FinishActive(h, hrec) ==
  LET messages == furtherMessages(hrec.chat, hrec.input) IN
    /\ chat' = messages
    /\ requests' = Append(requests, NewRequest(h, messages))
    /\ inputValue' = ""
    /\ handlers' = [handlers EXCEPT ![h] = [hrec EXCEPT !.pc = "done"]]

\* the handler after one of its queries changed: Promise.all resolves when
\* every query has resolved, otherwise the handler stays suspended
Resume(h, hrec) ==
  IF AllSettled(hrec.q) THEN FinishFresh(h, hrec)
  ELSE /\ handlers' = [handlers EXCEPT ![h] = hrec]
       /\ UNCHANGED <<chat, inputValue, requests>>

\* onChange of the input field
Type(text) ==
  /\ inputValue' = text
  /\ UNCHANGED <<chat, handlers, requests, normVars, extVars, execVars>>

\* onClick of Send: submitQuestion starts with the chat and inputValue of the
\* current render and suspends in fetchDashboard
Submit(h, uid) ==
  /\ handlers[h].pc = "idle"
  /\ IF h = 1 THEN TRUE ELSE handlers[h - 1].pc # "idle"
  /\ handlers' = [handlers EXCEPT ![h] =
       [IdleHandler EXCEPT !.pc = "dashboard", !.chat = chat,
                           !.input = inputValue, !.uid = uid,
                           !.metaCalls = IF uid THEN 1 ELSE 0]]
  /\ UNCHANGED <<chat, inputValue, requests, normVars, extVars, execVars>>

\* `await fetchDashboard()` returns: lines 196-238 up to the next suspension
DashboardReturn(h, resp) ==
  /\ handlers[h].pc = "dashboard"
  /\ LET dashboardData == fetchDashboard(handlers[h].uid, resp)
         fetched == [handlers[h] EXCEPT
                       !.meta = IF handlers[h].uid THEN resp.kind ELSE "nouid",
                       !.dashboardData = dashboardData] IN
       IF Len(handlers[h].chat) = 0
       THEN LET descs == FilterTargets(dashboardData)
                hrec == [fetched EXCEPT
                           !.pc = "queries", !.descs = descs,
                           !.q = [j \in 1..Len(descs) |-> StartQuery(descs[j])]]
            IN Resume(h, hrec)
       ELSE FinishActive(h, fetched)
  /\ UNCHANGED <<normVars, extVars, execVars>>

Querying(h, j, st) ==
  /\ handlers[h].pc = "queries"
  /\ j \in 1..Len(handlers[h].q)
  /\ handlers[h].q[j].st = st

\* getDataSourceSrv().get resolves and datasource.query returns a stream
RegistryResolve(h, j) ==
  /\ Querying(h, j, "registry")
  /\ Resume(h, [handlers[h] EXCEPT !.q[j] =
         Query("stream", NoResult, QueryRequest(handlers[h].descs[j]))])
  /\ UNCHANGED <<normVars, extVars, execVars>>

\* getDataSourceSrv().get rejects or datasource.query throws: caught, null
RegistryFail(h, j) ==
  /\ Querying(h, j, "registry")
  /\ Resume(h, [handlers[h] EXCEPT !.q[j] = QueryCaught])
  /\ UNCHANGED <<normVars, extVars, execVars>>

\* the stream's first event is a batch
StreamNext(h, j, batch) ==
  /\ Querying(h, j, "stream")
  /\ Resume(h, [handlers[h] EXCEPT !.q[j] = OnNext(@, batch)])
  /\ UNCHANGED <<normVars, extVars, execVars>>

\* the stream's first event is an error: the query's promise rejects, so
\* Promise.all rejects and submitQuestion ends with an unhandled rejection
StreamError(h, j) ==
  /\ Querying(h, j, "stream")
  /\ handlers' = [handlers EXCEPT ![h].q[j] = OnError(@), ![h].pc = "aborted"]
  /\ UNCHANGED <<chat, inputValue, requests, normVars, extVars, execVars>>

\* the stream completes without emitting: the promise is never settled
StreamComplete(h, j) ==
  /\ Querying(h, j, "stream")
  /\ handlers' = [handlers EXCEPT ![h].q[j].st = "completed"]
  /\ UNCHANGED <<chat, inputValue, requests, normVars, extVars, execVars>>

\* ------------------------------------------------------------- fetchGroqData
Body(choices) == [kind |-> "body", choices |-> choices]
Choice(message) == [message |-> message]
CompletionResponses ==
  {[kind |-> "reject", choices |-> NotArr], Body(NotArr), Body(Arr(<<>>)),
   Body(Arr(<<Choice(UndefMessage)>>))} \cup
  {Body(Arr(<<Choice(AssistantMessage(r))>>)) : r \in Replies}

\* fetch or response.json() rejects, or data_response.choices[0].message
\* throws a TypeError
CompletionThrows(resp) ==
  \/ resp.kind = "reject"
  \/ ~IsArray(resp.choices)
  \/ Len(resp.choices.items) = 0

\* variant: overwrites the last message with the response
AppendResponseOverLast(value, resp) ==
  [value EXCEPT ![Len(value)] = resp.choices.items[1].message]

\* setChat(value => [...value, messageResponse])
AppendResponse(value, resp) == Append(value, resp.choices.items[1].message)

\* variant: appends to the messages the request was sent with
setChatOnResponseSent(value, messages, resp) == AppendResponse(messages, resp)

\* lines 115-119: the update applies to the transcript of the moment the
\* response arrives; the messages the request was sent with are not used
setChatOnResponse(value, messages, resp) == AppendResponse(value, resp)

CompletionReturn(r, resp) ==
  /\ r \in 1..Len(requests)
  /\ requests[r].status = "pending"
  /\ IF CompletionThrows(resp)
     THEN /\ requests' = [requests EXCEPT ![r].status = "failed"]
          /\ UNCHANGED chat
     ELSE /\ requests' = [requests EXCEPT ![r].status = "answered",
                             ![r].added = <<resp.choices.items[1].message>>]
          /\ chat' = setChatOnResponse(chat, requests[r].messages, resp)
  /\ UNCHANGED <<inputValue, handlers, normVars, extVars, execVars>>

\* ----------------------------------------------------------- specifications
NormPending == [tag |-> "pending", rows |-> <<>>]
ExtPending == [done |-> FALSE, value |-> <<>>]
ExecPending(target, panel) ==
  [target |-> target, panel |-> panel, desc |-> Descriptor(target, panel),
   query |-> Query("idle", NoResult, NoRequest), live |-> FALSE,
   events |-> <<>>]
ExecIdle == ExecPending(PanelA.targets.items[1], PanelA)

CtlInit ==
  /\ chat = <<>>
  /\ inputValue = ""
  /\ handlers = [h \in 1..MaxSubmits |-> IdleHandler]
  /\ requests = <<>>

Init ==
  /\ CtlInit
  /\ normIn = NotArr /\ normOut = NormPending
  /\ extIn = NotPanelArr /\ extOut = ExtPending
  /\ exec = ExecIdle

Next ==
  \/ \E text \in InputTexts : Type(text)
  \/ \E h \in 1..MaxSubmits, uid \in BOOLEAN : Submit(h, uid)
  \/ \E h \in 1..MaxSubmits, resp \in MetaResponses : DashboardReturn(h, resp)
  \/ \E h \in 1..MaxSubmits : \E j \in DOMAIN handlers[h].q : RegistryResolve(h, j)
  \/ \E h \in 1..MaxSubmits : \E j \in DOMAIN handlers[h].q : RegistryFail(h, j)
  \/ \E h \in 1..MaxSubmits : \E j \in DOMAIN handlers[h].q : \E b \in Batches :
        StreamNext(h, j, b)
  \/ \E h \in 1..MaxSubmits : \E j \in DOMAIN handlers[h].q : StreamError(h, j)
  \/ \E h \in 1..MaxSubmits : \E j \in DOMAIN handlers[h].q : StreamComplete(h, j)
  \/ \E r \in 1..MaxSubmits, resp \in CompletionResponses : CompletionReturn(r, resp)

Spec == Init /\ [][Next]_vars

\* the Row Normalizer applied to every input of NormInputs
Normalize ==
  /\ normOut = NormPending
  /\ normOut' = convertGrafanaDataToJson(normIn)
  /\ UNCHANGED <<normIn, ctlVars, extVars, execVars>>

InitNormalizer ==
  /\ CtlInit
  /\ normIn \in NormInputs /\ normOut = NormPending
  /\ extIn = NotPanelArr /\ extOut = ExtPending
  /\ exec = ExecIdle

SpecNormalizer == InitNormalizer /\ [][Normalize]_vars

\* the Extractor applied to every input of ExtractInputs
Extract ==
  /\ ~extOut.done
  /\ extOut' = [done |-> TRUE, value |-> convertDashboardData(extIn)]
  /\ UNCHANGED <<extIn, ctlVars, normVars, execVars>>

InitExtractor ==
  /\ CtlInit
  /\ normIn = NotArr /\ normOut = NormPending
  /\ extIn \in ExtractInputs /\ extOut = ExtPending
  /\ exec = ExecIdle

SpecExtractor == InitExtractor /\ [][Extract]_vars

\* ------------------------------------------------- one executor call alone
\* a panel target with its panel, as the extractor meets them
ExecInputs ==
  UNION {{<<p.targets.items[t], p>> : t \in DOMAIN p.targets.items} :
           p \in {PanelA, PanelC, PanelD}} \cup
  {<<tg, PanelA>> : tg \in Targets}

NextEvent(batch) == [kind |-> "next", data |-> batch]
ErrorEvent == [kind |-> "error", data |-> NotArr]

\* the promise of lines 176-187 has neither resolved nor rejected
PromisePending(query) == query.st \in {"stream", "hung", "completed"}

ExecStep(query, live, events) ==
  /\ exec' = [exec EXCEPT !.query = query, !.live = live, !.events = events]
  /\ UNCHANGED <<ctlVars, normVars, extVars>>

\* lines 200-211: the descriptor passes the filter and queryDataSource runs
\* up to its first suspension
ExecCall ==
  /\ exec.query.st = "idle"
  /\ HasRawSql(exec.desc)
  /\ ExecStep(StartQuery(exec.desc), FALSE, <<>>)

\* line 151 and lines 155-177: the request is issued and subscribed to
ExecRegistryResolve ==
  /\ exec.query.st = "registry"
  /\ ExecStep(Query("stream", NoResult, QueryRequest(exec.desc)), TRUE, <<>>)

ExecRegistryFail ==
  /\ exec.query.st = "registry"
  /\ ExecStep(QueryCaught, FALSE, <<>>)

\* the stream emits a batch. resolve on a settled promise changes nothing. A
\* throw inside the next callback closes the subscription under RxJS 6 and
\* leaves it open under RxJS 7: the repository's files do not fix which.
ExecNext(batch, staysOpen) ==
  /\ exec.live /\ Len(exec.events) < MaxEvents
  /\ LET threw == convertGrafanaDataToJson(batch).tag = "thrown" IN
       ExecStep(IF PromisePending(exec.query) THEN OnNext(exec.query, batch)
                ELSE exec.query,
                threw => staysOpen,
                Append(exec.events, NextEvent(batch)))

\* the stream signals an error and ends
ExecError ==
  /\ exec.live /\ Len(exec.events) < MaxEvents
  /\ ExecStep(IF PromisePending(exec.query) THEN OnError(exec.query)
              ELSE exec.query,
              FALSE, Append(exec.events, ErrorEvent))

\* the stream completes: there is no complete handler
ExecComplete ==
  /\ exec.live
  /\ ExecStep(IF exec.query.st = "stream"
              THEN [exec.query EXCEPT !.st = "completed"] ELSE exec.query,
              FALSE, exec.events)

InitExecutor ==
  /\ CtlInit
  /\ normIn = NotArr /\ normOut = NormPending
  /\ extIn = NotPanelArr /\ extOut = ExtPending
  /\ exec \in {ExecPending(i[1], i[2]) : i \in ExecInputs}

NextExecutor ==
  \/ ExecCall
  \/ ExecRegistryResolve
  \/ ExecRegistryFail
  \/ \E batch \in Batches, staysOpen \in BOOLEAN : ExecNext(batch, staysOpen)
  \/ ExecError
  \/ ExecComplete

SpecExecutor == InitExecutor /\ [][NextExecutor]_vars

\* ------------------------------------------------------------------ claims
IsPrefix(s, t) == Len(s) <= Len(t) /\ SubSeq(t, 1, Len(s)) = s

Failed(query) ==
  \/ query.st = "rejected"
  \/ query.st = "settled" /\ query.result.tag \in {"undefined", "null"}
Succeeded(query) == query.st = "settled" /\ query.result.tag = "rows"
Terminated(hrec) == hrec.pc \in {"done", "aborted"}
Running(hrec) == hrec.pc \in {"dashboard", "queries"}
IsFresh(hrec) == Len(hrec.chat) = 0

\* C1: a Fresh submit in which one of the N >= 1 executors failed (undefined,
\* null or a rejected stream) while the other N-1 returned rows completes its
\* assembly, and its system message holds the rows of the N-1 successful panels.
C1_PartialFailureTolerated ==
  \A h \in 1..MaxSubmits :
    LET hrec == handlers[h] IN
      ( /\ Len(hrec.q) >= 1
        /\ \E j \in 1..Len(hrec.q) :
             /\ Failed(hrec.q[j])
             /\ \A i \in 1..Len(hrec.q) : i # j => Succeeded(hrec.q[i]) )
      => /\ hrec.pc = "done"
         /\ \E r \in 1..Len(requests) :
              /\ requests[r].h = h
              /\ requests[r].messages[1].role = "system"
              /\ \A i \in 1..Len(hrec.q) : Succeeded(hrec.q[i]) =>
                   requests[r].messages[1].content.data[i] =
                     StringifyEntry([title |-> hrec.descs[i].title,
                                     description |-> hrec.descs[i].description,
                                     result |-> hrec.q[i].result])

\* C2: every change of the transcript extends its previous value as a prefix.
C2_AppendOnly == [][IsPrefix(chat, chat')]_vars

\* C3: a submit invoked with text X while the transcript is empty ends by
\* setting the transcript to exactly [system(preamble + assembled context),
\* user(X)] and dispatching exactly that sequence in one request.
C3_FreshSubmit ==
  [][\A h \in 1..MaxSubmits :
       (Running(handlers[h]) /\ Terminated(handlers'[h]) /\ IsFresh(handlers[h]))
       => /\ chat' = <<SystemMessage(newPanelData(handlers'[h].descs, handlers'[h].q)),
                       UserMessage(handlers[h].input)>>
          /\ requests' = Append(requests, NewRequest(h, chat'))]_vars

C5_InputCleared ==
  [][\A h \in 1..MaxSubmits :
       (Running(handlers[h]) /\ Terminated(handlers'[h])) => inputValue' = ""]_vars

\* C6: when the completion call of a request rejects or its response lacks
\* choices[0].message, nothing is appended to the transcript, the transcript
\* still contains the request's user message, the submit has been handled
\* (input cleared) and no further request is dispatched.
C6_CompletionFailureSilent ==
  [][\A r \in 1..Len(requests) :
       ( /\ requests[r].status = "pending"
         /\ \/ requests'[r].status = "failed"
            \/ requests'[r].added = <<UndefMessage>> )
       => /\ chat' = chat
          /\ \E i \in 1..Len(chat') :
               chat'[i] = requests[r].messages[Len(requests[r].messages)]
          /\ handlers[requests[r].h].pc = "done"
          /\ Len(requests') = Len(requests)]_vars

\* C7: element 0 of a non-empty transcript has role system and never changes.
C7_SystemMessageFixed ==
  [][chat # <<>> =>
       /\ chat[1].role = "system"
       /\ chat' # <<>>
       /\ chat'[1] = chat[1]]_vars

\* an input whose frame 0 has K >= 1 fields of distinct names, each with a
\* values array of the same length
ValidColumns(data) ==
  /\ IsArray(data) /\ Len(data.items) >= 1
  /\ data.items[1].tag = "object" /\ IsArray(data.items[1].fields)
  /\ LET fields == data.items[1].fields.items IN
       /\ Len(fields) >= 1
       /\ \A k \in 1..Len(fields) :
            /\ IsArray(fields[k].values)
            /\ Len(fields[k].values.items) = Len(fields[1].values.items)
       /\ \A k, l \in 1..Len(fields) : fields[k].name = fields[l].name => k = l

\* C8: for an input whose frame 0 has K fields of distinct names, each with R
\* values, the normalizer returns exactly R records in row order, record i
\* having exactly the K names as keys and the fields' i-th values; frames
\* after frame 0 do not affect the result.
C8_RowNormalizerResult ==
  (normOut # NormPending /\ ValidColumns(normIn)) =>
    LET fields == normIn.items[1].fields.items
        R == Len(fields[1].values.items)
    IN /\ normOut.tag = "returned"
       /\ Len(normOut.rows) = R
       /\ \A i \in 1..R :
            /\ DOMAIN normOut.rows[i] = {fields[k].name : k \in 1..Len(fields)}
            /\ \A k \in 1..Len(fields) :
                 normOut.rows[i][fields[k].name] = fields[k].values.items[i]

\* C8 witness: two fields of two values each, followed by a second frame.
C8_Witness ==
  /\ normOut # NormPending /\ ValidColumns(normIn)
  /\ Len(normIn.items) = 2
  /\ Len(normIn.items[1].fields.items) = 2
  /\ Len(normOut.rows) = 2

\* C9: the normalizer never raises, and returns the empty sequence when the
\* input is not a non-empty list or frame 0 has no field list.
C9_NormalizerNeverRaises ==
  normOut # NormPending =>
    /\ normOut.tag = "returned"
    /\ ( \/ ~IsArray(normIn) \/ Len(normIn.items) = 0
         \/ normIn.items[1].tag # "object"
         \/ ~IsArray(normIn.items[1].fields) ) => normOut.rows = <<>>

\* number of targets of a panel (0 without a target list)
TargetCount(panel) ==
  IF IsArray(panel.targets) THEN Len(panel.targets.items) ELSE 0
RECURSIVE TargetsBefore(_, _)
\* number of targets of the panels before position p
TargetsBefore(panels, p) ==
  IF p <= 1 THEN 0
  ELSE TargetsBefore(panels, p - 1) + TargetCount(panels[p - 1])
IsPanelList(input) == input.tag = "array"

\* C10: for a panel list the extractor returns exactly T descriptors, T the
\* number of targets of the panels that have a target list, in panel order
\* and then target order, each with its panel's title and description;
\* targets with an empty or missing raw query are emitted too.
C10_ExtractorCardinalityOrder ==
  (extOut.done /\ IsPanelList(extIn)) =>
    LET panels == extIn.items
        out == extOut.value
    IN /\ Len(out) = TargetsBefore(panels, Len(panels) + 1)
       /\ \A p \in 1..Len(panels) : \A k \in 1..TargetCount(panels[p]) :
            LET d == out[TargetsBefore(panels, p) + k]
                t == panels[p].targets.items[k]
            IN /\ d.title = Nullish(panels[p].title, "")
               /\ d.description = Nullish(panels[p].description, "")
               /\ d.rawSql = Nullish(t.rawSql, "")
               /\ d.refId = Nullish(t.refId, "")

\* C10 witness: two panels with targets, one target without a raw query.
C10_Witness ==
  /\ extOut.done /\ IsPanelList(extIn)
  /\ Len(extIn.items) = 2
  /\ TargetCount(extIn.items[1]) = 2 /\ TargetCount(extIn.items[2]) = 1
  /\ extIn.items[1].targets.items[1].rawSql = Undef
  /\ extIn.items[1].title # extIn.items[2].title
  /\ Len(extOut.value) = 3

\* the field of a descriptor expected for an optional field of its target
DefaultsTo(actual, given, default) ==
  /\ given = Undef => actual = default
  /\ given # Undef => actual = given

\* C11: every emitted descriptor has its target's datasource, or "Unknown"
\* when the target has none; its target's rawSql, refId and format, or the
\* empty string when missing; its panel's title and description, or the empty
\* string when missing.
C11_ExtractorDefaults ==
  (extOut.done /\ IsPanelList(extIn)) =>
    LET panels == extIn.items
        out == extOut.value
    IN \A p \in 1..Len(panels) : \A k \in 1..TargetCount(panels[p]) :
         LET d == out[TargetsBefore(panels, p) + k]
             t == panels[p].targets.items[k]
         IN /\ DOMAIN d = {"datasource", "rawSql", "refId", "format",
                            "title", "description"}
            /\ DefaultsTo(d.datasource, t.datasource, "Unknown")
            /\ DefaultsTo(d.rawSql, t.rawSql, "")
            /\ DefaultsTo(d.refId, t.refId, "")
            /\ DefaultsTo(d.format, t.format, "")
            /\ DefaultsTo(d.title, panels[p].title, "")
            /\ DefaultsTo(d.description, panels[p].description, "")

\* C11 witness: a target without any field in a panel without title, next to a
\* target and a panel that have them all.
C11_Witness ==
  /\ extOut.done /\ IsPanelList(extIn)
  /\ Len(extIn.items) = 2
  /\ extIn.items[1].title = Undef /\ extIn.items[2].title = "A"
  /\ TargetCount(extIn.items[1]) = 1 /\ TargetCount(extIn.items[2]) = 1
  /\ extIn.items[1].targets.items[1].datasource = Undef
  /\ extIn.items[2].targets.items[1].datasource = "pg"
  /\ extOut.value[1].datasource = "Unknown"
  /\ extOut.value[2].format = "time_series"

\* the handler has passed fetchDashboard
Fetched(hrec) == hrec.pc \in {"queries", "done", "aborted"}
\* positions of the extracted descriptors that have a non-empty raw query
Queryable(dashboardData) ==
  {i \in 1..Len(dashboardData) : dashboardData[i].rawSql \notin {"", Undef}}

\* the executor runs of a handler match its extracted descriptors: one per
\* descriptor with a non-empty raw query, none for the others
OnePerQueryable(hrec) ==
  /\ Len(hrec.q) = Len(hrec.descs)
  /\ IF IsFresh(hrec)
     THEN /\ Len(hrec.q) = Cardinality(Queryable(hrec.dashboardData))
          /\ \A j \in 1..Len(hrec.descs) :
               \E i \in Queryable(hrec.dashboardData) :
                 /\ hrec.descs[j] = hrec.dashboardData[i]
                 /\ Cardinality({l \in Queryable(hrec.dashboardData) : l < i}) = j - 1
     ELSE hrec.q = <<>>

\* C12: in one assembly pass the executor is invoked exactly once per
\* extracted descriptor with a non-empty raw query and never for one with an
\* empty raw query; a query that has failed is never issued again; with panel
\* A holding one target "SELECT 1" and panel B none, one query is executed and
\* the context holds one panel result, A's.
C12_FanOutCardinality ==
  [][\A h \in 1..MaxSubmits :
       /\ Fetched(handlers'[h]) =>
            /\ OnePerQueryable(handlers'[h])
            /\ ( IsFresh(handlers'[h]) /\
                 handlers'[h].dashboardData = ExtractFrom(<<PanelA, PanelB>>) )
               => /\ Len(handlers'[h].q) = 1
                  /\ handlers'[h].descs[1].title = "A"
                  /\ \A r \in 1..Len(requests') : requests'[r].h = h =>
                       /\ Len(requests'[r].messages[1].content.data) = 1
                       /\ requests'[r].messages[1].content.data[1].title = "A"
       /\ Fetched(handlers[h]) =>
            /\ handlers'[h].descs = handlers[h].descs
            /\ \A j \in 1..Len(handlers[h].q) :
                 /\ handlers[h].q[j].request # NoRequest
                      => handlers'[h].q[j].request = handlers[h].q[j].request
                 /\ (Failed(handlers[h].q[j]) \/ Succeeded(handlers[h].q[j]))
                      => handlers'[h].q[j] = handlers[h].q[j]]_vars

\* C12 witness: the spec's example has run to a dispatched context, and
\* another pass has queried three of four extracted descriptors.
C12_Witness ==
  \E h, g \in 1..MaxSubmits :
    /\ handlers[h].pc = "done" /\ IsFresh(handlers[h])
    /\ handlers[h].dashboardData = ExtractFrom(<<PanelA, PanelB>>)
    /\ handlers[h].q[1].request.rawSql = "SELECT 1"
    /\ Fetched(handlers[g]) /\ IsFresh(handlers[g])
    /\ Len(handlers[g].dashboardData) = 4 /\ Len(handlers[g].q) = 3

\* what the context shows for the outcome of one executor run
ResultShown(shown, result) ==
  /\ result.tag = "undefined" => shown.tag = "omitted"
  /\ result.tag = "null" => shown.tag = "null"
  /\ result.tag = "rows" =>
       /\ shown.tag = "rows"
       /\ Len(shown.rows) = Len(result.rows)
       /\ \A i \in 1..Len(result.rows) : \A n \in DOMAIN result.rows[i] :
            result.rows[i][n] # Undef =>
              (n \in DOMAIN shown.rows[i] /\ shown.rows[i][n] = result.rows[i][n])

\* C15: the list serialized into the context has exactly one entry per
\* descriptor with a non-empty raw query, in descriptor order, and entry j
\* pairs the title and description of descriptor j with the outcome of the
\* execution of descriptor j, whatever order the executions settled in.
C15_ResultsPairedInOrder ==
  \A r \in 1..Len(requests) :
    LET hrec == handlers[requests[r].h]
        data == requests[r].messages[1].content.data
    IN IsFresh(hrec) =>
         /\ Len(data) = Cardinality(Queryable(hrec.dashboardData))
         /\ Len(data) = Len(hrec.descs)
         /\ \A j \in 1..Len(data) :
              /\ data[j].title = hrec.descs[j].title
              /\ data[j].description = hrec.descs[j].description
              /\ hrec.q[j].request # NoRequest
                   => hrec.q[j].request.rawSql = hrec.descs[j].rawSql
              /\ ResultShown(data[j].result, hrec.q[j].result)

\* C15 witness: a context of three entries with three different outcomes.
C15_Witness ==
  \E r \in 1..Len(requests) :
    LET data == requests[r].messages[1].content.data IN
      /\ IsFresh(handlers[requests[r].h])
      /\ Len(data) = 3
      /\ data[1].result.tag = "omitted" /\ data[1].title = "C"
      /\ data[2].result.tag = "null" /\ data[2].title = "A"
      /\ data[3].result.tag = "rows" /\ data[3].title = ""

\* C17: without a dashboard UID the metadata service is not called, and then,
\* as when the metadata call rejects, fetchDashboard yields the empty list, no
\* data source is resolved or queried and the submit handler runs to its end.
C17_MissingDashboardShortCircuits ==
  \A h \in 1..MaxSubmits :
    LET hrec == handlers[h] IN
      /\ (hrec.pc # "idle" /\ ~hrec.uid) => hrec.metaCalls = 0
      /\ hrec.metaCalls <= 1
      /\ (Fetched(hrec) /\ (~hrec.uid \/ hrec.meta = "reject")) =>
           /\ hrec.dashboardData = <<>>
           /\ hrec.descs = <<>> /\ hrec.q = <<>>
           /\ hrec.pc = "done"
           /\ \E r \in 1..Len(requests) :
                /\ requests[r].h = h
                /\ IsFresh(hrec) => requests[r].messages[1].content.data = <<>>

\* C17 witness: one submit without a dashboard UID and one whose metadata
\* call was rejected have both been handled.
C17_Witness ==
  \E h, g \in 1..MaxSubmits :
    /\ handlers[h].pc = "done" /\ ~handlers[h].uid /\ handlers[h].meta = "nouid"
    /\ handlers[g].pc = "done" /\ handlers[g].uid /\ handlers[g].meta = "reject"
    /\ handlers[g].metaCalls = 1

\* the registry and, when a stream was opened, the stream have responded
Responded(query) == query.st \in {"settled", "rejected", "completed", "hung"}

\* C14: a query whose data-source registry and stream have responded (a
\* batch, an error, or completion without a batch) has settled with rows or a
\* failure, and a Fresh submit all of whose queries have been responded to has
\* set the transcript and dispatched its request.
C14_ExecutorAndJoinTerminate ==
  \A h \in 1..MaxSubmits :
    LET hrec == handlers[h] IN
      (Fetched(hrec) /\ IsFresh(hrec)) =>
        /\ \A j \in 1..Len(hrec.q) :
             Responded(hrec.q[j]) => hrec.q[j].st \in {"settled", "rejected"}
        /\ (\A j \in 1..Len(hrec.q) : Responded(hrec.q[j])) =>
             /\ hrec.pc = "done"
             /\ \E r \in 1..Len(requests) : requests[r].h = h

\* the completion response of request r is handled in this step
Answers(r) == requests[r].status = "pending" /\ requests'[r].status = "answered"

\* C16: a submit neither cancels nor changes a request in flight, and a reply
\* that arrives after newer messages were added lands behind them, so the
\* transcript [system, user1, user2, assistant1] is reached.
C16_StaleReplyAfterNewerMessages ==
  [][\A r \in 1..Len(requests) :
       /\ requests'[r].messages = requests[r].messages
       /\ requests'[r].h = requests[r].h
       /\ (requests[r].status = "pending" /\ Len(requests') > Len(requests))
            => requests'[r].status = "pending"
       /\ (Answers(r) /\ Len(chat) > Len(requests[r].messages)) =>
            /\ Len(chat') = Len(chat) + 1
            /\ chat'[Len(chat')] = requests'[r].added[1]
            /\ \A i \in (Len(requests[r].messages) + 1)..Len(chat) :
                 chat'[i] = chat[i]]_vars

\* C16 witness: the reply to turn 1 stands after the user message of turn 2.
C16_Witness ==
  /\ Len(chat) = 4 /\ Len(requests) = 2
  /\ chat[1].role = "system" /\ chat[2].role = "user"
  /\ chat[3].role = "user" /\ chat[4].role = "assistant"
  /\ requests[1].messages = SubSeq(chat, 1, 2)
  /\ requests[1].status = "answered" /\ requests[1].added = <<chat[4]>>
  /\ requests[2].messages = SubSeq(chat, 1, 3)
  /\ requests[2].status = "pending"

\* C19: a completion response that yields a message appends exactly that one
\* message to the transcript as it is when the response arrives; the messages
\* already there stay in place and the input buffer, the submit handlers and
\* the other requests are not touched.
C19_ResponseHandlerFrame ==
  [][\A r \in 1..Len(requests) : Answers(r) =>
       /\ Len(requests'[r].added) = 1
       /\ chat' = chat \o requests'[r].added
       /\ inputValue' = inputValue
       /\ handlers' = handlers
       /\ Len(requests') = Len(requests)
       /\ \A o \in 1..Len(requests) : o # r => requests'[o] = requests[o]]_vars

\* C19 witness: a reply was appended to a transcript that had grown since the
\* request was sent, while the user had typed new text.
C19_Witness ==
  \E r \in 1..Len(requests) :
    /\ requests[r].status = "answered"
    /\ requests[r].added[1].role = "assistant"
    /\ Len(chat) = Len(requests[r].messages) + 2
    /\ chat[Len(chat)] = requests[r].added[1]
    /\ SubSeq(chat, 1, Len(requests[r].messages)) = requests[r].messages
    /\ inputValue = "Y"

\* C13: when the first event of a query stream is a batch, queryDataSource
\* resolves with the normalization of that batch and later events change
\* nothing; when the first event is an error, queryDataSource rejects.
C13_ExecutorFirstBatch ==
  Len(exec.events) >= 1 =>
    IF exec.events[1].kind = "next"
    THEN /\ exec.query.st = "settled"
         /\ exec.query.result =
              RowsResult(convertGrafanaDataToJson(exec.events[1].data).rows)
    ELSE exec.query.st = "rejected"

\* C18: the target of an issued request has the panel target's refId, or "A"
\* when it has none, its format, or "table" when it has none, and its raw
\* query text.
C18_QueryRequestDefaults ==
  exec.query.request # NoRequest =>
    /\ DefaultsTo(exec.query.request.refId, exec.target.refId, "A")
    /\ DefaultsTo(exec.query.request.format, exec.target.format, "table")
    /\ exec.query.request.rawSql = exec.target.rawSql

====
